---- MODULE Spec2Model ----
(***************************************************************************)
(* Model of the packet sniffer of wireshark.py: the capture run            *)
(* (main -> start_sniffing -> sniff(prn=packet_handler, stop_filter,       *)
(* count)), the per-frame handler and the SIGINT handler.                  *)
(*                                                                         *)
(* The run starts right after main has registered signal_handler.  The     *)
(* sniff loop is the one of the capture library the program calls: it      *)
(* blocks for a frame, counts it, calls prn on it, and only then           *)
(* evaluates stop_filter and the count limit; an exception raised by prn   *)
(* or by the capture device leaves sniff and reaches the except clause of  *)
(* start_sniffing.  Python runs a signal handler between two bytecodes of  *)
(* the main thread, so signal_handler may act at any program point.        *)
(***************************************************************************)
EXTENDS Integers, Sequences, FiniteSets, TLC

\* ---- bounds of the model ----
MaxFrames == 3      \* frames the frame source can yield in one run
MaxSignals == 2     \* SIGINT deliveries in one run
MaxLimit == 2       \* largest --count argument tried
MaxClock == 3       \* latest reading of the clock, in ticks
TicksPerMs == 2     \* clock ticks in one millisecond

VARIABLES
    pc,             \* program point of the main thread
    running,        \* global running (stop_requested is ~running)
    packet_count,   \* global packet_count (frames_processed)
    count,          \* the --count argument handed to sniff
    sniffed,        \* the sniff loop's own count of frames received
    pkt,            \* the frame being handled, NoPacket between frames
    info,           \* the line built by packet_handler, NoInfo before
    out,            \* standard output, one entry per printed line
    exit_status,    \* process exit status, -1 while running
    reported,       \* the count printed by main's summary, -1 before
    signals,        \* SIGINT deliveries so far
    stop_at,        \* packet_count at the frame boundary where running
                    \* was first cleared, -1 otherwise
    after_stop,     \* frames dispatched to packet_handler while ~running
    cause,          \* why the sniff loop was left
    timestamp,      \* the timestamp of the line built (line 68), -1 before
    count_at_flag   \* packet_count when running was first cleared, -1
                    \* before

vars == <<pc, running, packet_count, count, sniffed, pkt, info, out,
          exit_status, reported, signals, stop_at, after_stop, cause,
          timestamp, count_at_flag>>

\* ---- frames ----
Layers == {"IP", "TCP", "UDP", "ICMP", "DNS", "DNSQR", "DNSRR",
           "HTTPRequest", "HTTPResponse"}

\* A frame as the handler sees it: the layers haslayer() reports, whether
\* its byte fields (qname, Host, Path, Status_Code) decode as UTF-8, and
\* whether dns.an is a DNSRR.  The question and resource records live
\* inside the DNS layer.
Frames ==
    { f \in [layers : SUBSET Layers, text_ok : BOOLEAN, an_rr : BOOLEAN] :
        /\ ("DNSQR" \in f.layers => "DNS" \in f.layers)
        /\ ("DNSRR" \in f.layers => "DNS" \in f.layers)
        /\ (f.an_rr => "DNSRR" \in f.layers)
        /\ (~f.text_ok =>
              f.layers \cap {"DNSQR", "HTTPRequest", "HTTPResponse"} # {}) }

haslayer(p, l) == l \in p.layers

\* Mutant of get_protocol_name: UDP is tested before TCP.
get_protocol_name_udp_first(p) ==
    IF haslayer(p, "UDP") THEN "UDP"
    ELSE IF haslayer(p, "TCP") THEN "TCP"
    ELSE IF haslayer(p, "ICMP") THEN "ICMP"
    ELSE "OTHER"

\* ---- pure functions of wireshark.py ----
get_protocol_name(p) ==
    IF haslayer(p, "TCP") THEN "TCP"
    ELSE IF haslayer(p, "UDP") THEN "UDP"
    ELSE IF haslayer(p, "ICMP") THEN "ICMP"
    ELSE "OTHER"

\* Each process_* returns <<detail>> or <<>> (None); the *_raises operators
\* say when the function raises instead of returning.
process_dns_raises(p) == haslayer(p, "DNSQR") /\ ~p.text_ok

\* Mutant of process_dns: the resource record is tested before the question.
process_dns_answer_first(p) ==
    IF haslayer(p, "DNSRR") /\ p.an_rr THEN <<"DNS Response">>
    ELSE IF haslayer(p, "DNSQR") THEN <<"DNS Query">>
    ELSE <<>>

process_dns(p) ==
    IF haslayer(p, "DNSQR") THEN <<"DNS Query">>
    ELSE IF haslayer(p, "DNSRR") /\ p.an_rr THEN <<"DNS Response">>
    ELSE <<>>

process_http_raises(p) ==
    (haslayer(p, "HTTPRequest") \/ haslayer(p, "HTTPResponse")) /\ ~p.text_ok

process_http(p) ==
    IF haslayer(p, "HTTPRequest") THEN <<"HTTP Request">>
    ELSE IF haslayer(p, "HTTPResponse") THEN <<"HTTP Response">>
    ELSE <<>>

\* packet[IP] raises IndexError when the frame has no IPv4 layer.
process_tcp_raises(p) == haslayer(p, "TCP") /\ ~haslayer(p, "IP")

process_tcp(p) ==
    IF haslayer(p, "TCP") THEN <<"TCP">> ELSE <<>>

\* Lines 68-99 of packet_handler: does building the line raise, and the
\* line built otherwise.
handler_raises(p) ==
    \/ haslayer(p, "DNS") /\ process_dns_raises(p)
    \/ (haslayer(p, "HTTPRequest") \/ haslayer(p, "HTTPResponse"))
          /\ process_http_raises(p)
    \/ haslayer(p, "TCP") /\ process_tcp_raises(p)

\* Mutant of handler_info: the IP detail is appended before the TCP detail.
handler_info_ip_first(p) ==
    [protocol |-> get_protocol_name(p),
     details |->
        (IF haslayer(p, "DNS") THEN process_dns(p) ELSE <<>>)
        \o (IF haslayer(p, "HTTPRequest") \/ haslayer(p, "HTTPResponse")
            THEN process_http(p) ELSE <<>>)
        \o (IF haslayer(p, "IP") THEN <<"IP">> ELSE <<>>)
        \o (IF haslayer(p, "TCP") THEN process_tcp(p) ELSE <<>>)]

handler_info(p) ==
    [protocol |-> get_protocol_name(p),
     details |->
        (IF haslayer(p, "DNS") THEN process_dns(p) ELSE <<>>)
        \o (IF haslayer(p, "HTTPRequest") \/ haslayer(p, "HTTPResponse")
            THEN process_http(p) ELSE <<>>)
        \o (IF haslayer(p, "TCP") THEN process_tcp(p) ELSE <<>>)
        \o (IF haslayer(p, "IP") THEN <<"IP">> ELSE <<>>)]

NoInfo == [protocol |-> "", details |-> <<>>]

\* Line 68: datetime.now().strftime("...%f")[:-3], the clock reading cut to
\* whole milliseconds.
strftime_ms(now) == now \div TicksPerMs

\* Lines 68-99 as a function of the frame and of the clock reading: the
\* line packet_handler prints.
packet_line(p, now) == <<strftime_ms(now), handler_info(p)>>

\* ---- the sniff loop's stop test, after each handled frame ----
\* (stop_filter and stop_filter(p)) or (0 < count <= session.count)
stop_filter(run) == ~run

\* Mutant of limit_reached: the limit test is off by one.
limit_reached_late(cnt, n) == 0 < cnt /\ cnt < n

limit_reached(cnt, n) == 0 < cnt /\ cnt <= n

\* ---- initial state: main has parsed --count and registered the handler
Init ==
    /\ pc = "start"
    /\ running = TRUE
    /\ packet_count = 0
    /\ count \in 0..MaxLimit
    /\ sniffed = 0
    /\ pkt = <<>>
    /\ info = NoInfo
    /\ out = <<>>
    /\ exit_status = -1
    /\ reported = -1
    /\ signals = 0
    /\ stop_at = -1
    /\ after_stop = 0
    /\ cause = "none"
    /\ timestamp = -1
    /\ count_at_flag = -1

\* Mutant of start_sniffing: the column titles and the rule are not printed.
start_sniffing_no_header ==
    /\ pc = "start"
    /\ out' = out \o <<"starting", "press">>
    /\ pc' = "sniff"
    /\ UNCHANGED <<running, packet_count, count, sniffed, pkt, info,
                   exit_status, reported, signals, stop_at, after_stop, cause>>
    /\ UNCHANGED <<timestamp, count_at_flag>>

\* ---- start_sniffing ----
\* Lines 105-110: the banner.
start_sniffing ==
    /\ pc = "start"
    /\ out' = out \o <<"starting", "press", "header", "rule">>
    /\ pc' = "sniff"
    /\ UNCHANGED <<running, packet_count, count, sniffed, pkt, info,
                   exit_status, reported, signals, stop_at, after_stop, cause>>
    /\ UNCHANGED <<timestamp, count_at_flag>>

\* sniff() opens the capture device and blocks for the first frame.
sniff_open ==
    /\ pc = "sniff"
    /\ pc' = "waiting"
    /\ UNCHANGED <<running, packet_count, count, sniffed, pkt, info, out,
                   exit_status, reported, signals, stop_at, after_stop, cause>>
    /\ UNCHANGED <<timestamp, count_at_flag>>

\* The frame source fails (device not found, permission denied, device
\* error): sniff raises, the except clause of start_sniffing is entered.
sniff_raises ==
    /\ pc \in {"sniff", "waiting"}
    /\ pc' = "except"
    /\ cause' = "source"
    /\ UNCHANGED <<running, packet_count, count, sniffed, pkt, info, out,
                   exit_status, reported, signals, stop_at, after_stop>>
    /\ UNCHANGED <<timestamp, count_at_flag>>

\* A frame arrives: the loop counts it and calls prn=packet_handler on it.
\* The stop flag is not consulted here.
sniff_dispatch ==
    /\ pc = "waiting"
    /\ sniffed < MaxFrames
    /\ \E f \in Frames : pkt' = <<f>>
    /\ sniffed' = sniffed + 1
    /\ after_stop' = IF running THEN after_stop ELSE after_stop + 1
    /\ info' = NoInfo
    /\ pc' = "handler"
    /\ UNCHANGED <<running, packet_count, count, out, exit_status, reported,
                   signals, stop_at, cause>>
    /\ timestamp' = -1
    /\ UNCHANGED count_at_flag

\* Mutant of handler_count: the frame is counted only when a transport
\* layer was recognised.
handler_count_matched ==
    /\ pc = "handler"
    /\ packet_count' = IF get_protocol_name(pkt[1]) = "OTHER"
                       THEN packet_count ELSE packet_count + 1
    /\ pc' = "format"
    /\ UNCHANGED <<running, count, sniffed, pkt, info, out, exit_status,
                   reported, signals, stop_at, after_stop, cause>>
    /\ UNCHANGED <<timestamp, count_at_flag>>

\* ---- packet_handler ----
\* Line 66.
handler_count ==
    /\ pc = "handler"
    /\ packet_count' = packet_count + 1
    /\ pc' = "format"
    /\ UNCHANGED <<running, count, sniffed, pkt, info, out, exit_status,
                   reported, signals, stop_at, after_stop, cause>>
    /\ UNCHANGED <<timestamp, count_at_flag>>

\* Lines 68-99: build the line, or raise out of the handler and of sniff.
handler_format ==
    /\ pc = "format"
    /\ IF handler_raises(pkt[1])
       THEN /\ pc' = "except"
            /\ cause' = "handler"
            /\ pkt' = <<>>
            /\ UNCHANGED <<info, timestamp>>
       ELSE /\ info' = handler_info(pkt[1])
            /\ \E now \in 0..MaxClock : timestamp' = strftime_ms(now)
            /\ pc' = "print"
            /\ UNCHANGED <<cause, pkt>>
    /\ UNCHANGED <<running, packet_count, count, sniffed, out, exit_status,
                   reported, signals, stop_at, after_stop>>
    /\ UNCHANGED count_at_flag

\* Mutant of handler_print: a line without details is not printed.
handler_print_details_only ==
    /\ pc = "print"
    /\ out' = IF info.details = <<>> THEN out ELSE Append(out, "frame")
    /\ pkt' = <<>>
    /\ pc' = "check"
    /\ UNCHANGED <<running, packet_count, count, sniffed, info, exit_status,
                   reported, signals, stop_at, after_stop, cause>>
    /\ UNCHANGED <<timestamp, count_at_flag>>

\* Line 101, and the return to the sniff loop.
handler_print ==
    /\ pc = "print"
    /\ out' = Append(out, "frame")
    /\ pkt' = <<>>
    /\ pc' = "check"
    /\ UNCHANGED <<running, packet_count, count, sniffed, info, exit_status,
                   reported, signals, stop_at, after_stop, cause>>
    /\ UNCHANGED <<timestamp, count_at_flag>>

\* Mutant of sniff_check: the loop tests the count limit only.
sniff_check_limit_only ==
    /\ pc = "check"
    /\ IF limit_reached(count, sniffed)
       THEN pc' = "returned" /\ cause' = "limit"
       ELSE pc' = "waiting" /\ UNCHANGED cause
    /\ UNCHANGED <<running, packet_count, count, sniffed, pkt, info, out,
                   exit_status, reported, signals, stop_at, after_stop>>
    /\ UNCHANGED <<timestamp, count_at_flag>>

\* The sniff loop's test after the handler returned.
sniff_check ==
    /\ pc = "check"
    /\ IF stop_filter(running)
       THEN pc' = "returned" /\ cause' = "cancel"
       ELSE IF limit_reached(count, sniffed)
       THEN pc' = "returned" /\ cause' = "limit"
       ELSE pc' = "waiting" /\ UNCHANGED cause
    /\ UNCHANGED <<running, packet_count, count, sniffed, pkt, info, out,
                   exit_status, reported, signals, stop_at, after_stop>>
    /\ UNCHANGED <<timestamp, count_at_flag>>

\* Mutant of except_exit: the error is printed but the status is 0.
except_exit_zero ==
    /\ pc = "except"
    /\ out' = Append(out, "error")
    /\ exit_status' = 0
    /\ pc' = "exited"
    /\ UNCHANGED <<running, packet_count, count, sniffed, pkt, info,
                   reported, signals, stop_at, after_stop, cause>>
    /\ UNCHANGED <<timestamp, count_at_flag>>

\* Lines 119-121: print the error and sys.exit(1).
except_exit ==
    /\ pc = "except"
    /\ out' = Append(out, "error")
    /\ exit_status' = 1
    /\ pc' = "exited"
    /\ UNCHANGED <<running, packet_count, count, sniffed, pkt, info,
                   reported, signals, stop_at, after_stop, cause>>
    /\ UNCHANGED <<timestamp, count_at_flag>>

\* ---- main, line 138, and the normal return of main ----
main_summary ==
    /\ pc = "returned"
    /\ out' = Append(out, "summary")
    /\ reported' = packet_count
    /\ exit_status' = 0
    /\ pc' = "exited"
    /\ UNCHANGED <<running, packet_count, count, sniffed, pkt, info,
                   signals, stop_at, after_stop, cause>>
    /\ UNCHANGED <<timestamp, count_at_flag>>

\* Mutant of signal_handler: the handler also resets the counter.
signal_handler_resets ==
    /\ pc # "exited"
    /\ signals < MaxSignals
    /\ signals' = signals + 1
    /\ out' = Append(out, "stopping")
    /\ running' = FALSE
    /\ packet_count' = 0
    /\ stop_at' = IF running /\ pc \in {"start", "sniff", "waiting"}
                  THEN packet_count ELSE stop_at
    /\ UNCHANGED <<pc, count, sniffed, pkt, info, exit_status,
                   reported, after_stop, cause>>
    /\ count_at_flag' = IF running THEN packet_count ELSE count_at_flag
    /\ UNCHANGED timestamp

\* Mutant of signal_handler: the handler toggles the flag.
signal_handler_toggle ==
    /\ pc # "exited"
    /\ signals < MaxSignals
    /\ signals' = signals + 1
    /\ out' = Append(out, "stopping")
    /\ running' = ~running
    /\ stop_at' = IF running /\ pc \in {"start", "sniff", "waiting"}
                  THEN packet_count ELSE stop_at
    /\ UNCHANGED <<pc, packet_count, count, sniffed, pkt, info, exit_status,
                   reported, after_stop, cause>>
    /\ count_at_flag' = IF running THEN packet_count ELSE count_at_flag
    /\ UNCHANGED timestamp

\* ---- signal_handler, lines 16-19, at any point of the running process
signal_handler ==
    /\ pc # "exited"
    /\ signals < MaxSignals
    /\ signals' = signals + 1
    /\ out' = Append(out, "stopping")
    /\ running' = FALSE
    /\ stop_at' = IF running /\ pc \in {"start", "sniff", "waiting"}
                  THEN packet_count ELSE stop_at
    /\ UNCHANGED <<pc, packet_count, count, sniffed, pkt, info, exit_status,
                   reported, after_stop, cause>>
    /\ count_at_flag' = IF running THEN packet_count ELSE count_at_flag
    /\ UNCHANGED timestamp

Next ==
    \/ start_sniffing
    \/ sniff_open
    \/ sniff_raises
    \/ sniff_dispatch
    \/ handler_count
    \/ handler_format
    \/ handler_print
    \/ sniff_check
    \/ except_exit
    \/ main_summary
    \/ signal_handler

Spec == Init /\ [][Next]_vars

\* The program's own steps are taken when enabled; the arrival of a frame,
\* a failure of the frame source and the delivery of a signal are up to
\* the environment and carry no fairness.
ProgramStep ==
    \/ start_sniffing
    \/ sniff_open
    \/ handler_count
    \/ handler_format
    \/ handler_print
    \/ sniff_check
    \/ except_exit
    \/ main_summary

FairSpec == Init /\ [][Next]_vars /\ WF_vars(ProgramStep)

\* ---- helpers of the properties ----
Lines(kind) == {i \in DOMAIN out : out[i] = kind}

FrameBoundary == {"waiting", "check", "returned"}

\* ---- C1 ----
\* C1: once running is False no new frame is dispatched to packet_handler:
\* no frame is handed to the handler while the flag is already set.
C1_NoDispatchAfterStop == after_stop = 0

\* ---- C2 ----
\* C2: with count = 0, when the signal is delivered at a frame boundary
\* after exactly k frames and the run ends by that cancellation, the run
\* exits without error, the reported count is k, and no frame line is
\* printed after the "stopping" line.
C2_CancelCountExact ==
    (pc = "exited" /\ count = 0 /\ stop_at >= 0 /\ cause = "cancel") =>
        /\ exit_status = 0
        /\ reported = stop_at
        /\ \A i \in Lines("stopping") : \A j \in Lines("frame") : j < i

\* ---- C3 ----
\* C3: whenever running becomes False, the session eventually stops and the
\* process exits, whether or not a further frame arrives.  Runs in which
\* the source has already yielded MaxFrames frames are left aside, so that
\* a violation never rests on that bound.
C3_StopLeadsToStopped ==
    (~running) ~> (pc = "exited" \/ sniffed = MaxFrames)

\* ---- C4 ----
\* C4: with a nonzero count N, packet_count never exceeds N, the loop never
\* waits for a frame once N frames were processed, and a run that ends
\* without cancellation or error has processed and reports exactly N.
C4_LimitRespected ==
    count > 0 =>
        /\ packet_count <= count
        /\ (pc = "waiting" => packet_count < count)
        /\ (pc \in {"returned", "exited"} /\ signals = 0 /\ cause = "limit"
              => packet_count = count)
        /\ (pc = "exited" /\ signals = 0 /\ exit_status = 0
              => reported = count)

C4_Witness ==
    /\ pc = "exited" /\ count = 2 /\ signals = 0
    /\ cause = "limit" /\ reported = 2

\* ---- C5 ----
\* C5: a decode error in one layer never aborts the frame or the session:
\* the sniff loop is never left because packet_handler raised.
C5_DecodeErrorNeverAborts == cause # "handler"

\* ---- C6 ----
\* C6: a run that ends by the limit or by cancellation exits with status 0;
\* a run whose frame source fails prints the error as its last line, prints
\* no frame line or summary after the failure, and exits non-zero.
C6_ExitStatusByCause ==
    pc = "exited" =>
        /\ (cause \in {"limit", "cancel"} => exit_status = 0)
        /\ (cause = "source" =>
              /\ exit_status > 0
              /\ Cardinality(Lines("error")) = 1
              /\ out[Len(out)] = "error"
              /\ Lines("summary") = {})

C6_Witness ==
    /\ pc = "exited" /\ cause = "source" /\ packet_count >= 1
    /\ exit_status = 1

\* ---- C7 ----
\* C7: on every termination by limit, cancellation or frame-source error
\* the summary line is printed exactly once, as the last line, and reports
\* packet_count.
C7_SummaryOnEveryTermination ==
    (pc = "exited" /\ cause \in {"limit", "cancel", "source"}) =>
        /\ Cardinality(Lines("summary")) = 1
        /\ out[Len(out)] = "summary"
        /\ reported = packet_count

\* ---- C8 ----
\* C8: packet_count never decreases, a step changes it by at most one, each
\* call of packet_handler adds exactly one whatever the frame's layers, and
\* at every frame boundary it equals the number of frames dispatched.
C8_CountOncePerFrame ==
    /\ [][/\ packet_count' >= packet_count
          /\ packet_count' <= packet_count + 1
          /\ (pc = "handler" /\ pc' = "format"
                => packet_count' = packet_count + 1)]_vars
    /\ [](pc \in FrameBoundary => packet_count = sniffed)

C8_Witness ==
    /\ pc = "check" /\ packet_count = 2 /\ sniffed = 2
    /\ info.protocol = "OTHER" /\ info.details = <<>>

\* ---- C9 ----
\* C9: once running is False it stays False in every later state.
C9_StopNeverCleared == [][~running => ~running']_vars

C9_Witness ==
    /\ ~running /\ signals = 2 /\ after_stop = 1 /\ pc = "returned"

\* ---- C10 ----
\* C10: further interrupts add nothing to the output: however many are
\* delivered, at most one "stopping" line is printed.
C10_OneStoppingLine == Cardinality(Lines("stopping")) <= 1

\* ---- C11 ----
\* C11: a step of signal_handler (a signal delivery) leaves packet_count,
\* the frame in hand, the line being built, the sniff count and the program
\* point unchanged; every other step, the capture loop's among them, leaves
\* running unchanged.
C11_SingleWriter ==
    [][/\ (signals' # signals =>
              UNCHANGED <<packet_count, pkt, info, sniffed, pc>>)
       /\ (signals' = signals => running' = running)]_vars

C11_Witness ==
    /\ pc = "format" /\ pkt # <<>> /\ ~running /\ signals = 1
    /\ packet_count = 2 /\ stop_at = -1

\* ---- C12 ----
\* C12: for the frame in hand, whatever its layers, the transport tag is
\* "TCP" when TCP is present, else "UDP" when UDP is present, else "ICMP"
\* when ICMP is present, else "OTHER", so DNS and HTTP layers never change
\* it; and the tag of the line built is that tag.
PrecedenceTag(ls, tag) ==
    /\ ("TCP" \in ls => tag = "TCP")
    /\ ("TCP" \notin ls /\ "UDP" \in ls => tag = "UDP")
    /\ ({"TCP", "UDP"} \cap ls = {} /\ "ICMP" \in ls => tag = "ICMP")
    /\ ({"TCP", "UDP", "ICMP"} \cap ls = {} => tag = "OTHER")

C12_TransportPrecedence ==
    pkt # <<>> =>
        /\ PrecedenceTag(pkt[1].layers, get_protocol_name(pkt[1]))
        /\ (pc = "print" => PrecedenceTag(pkt[1].layers, info.protocol))

C12_Witness ==
    /\ pc = "print" /\ pkt # <<>>
    /\ {"IP", "TCP", "UDP", "ICMP", "DNS", "HTTPRequest"} \subseteq pkt[1].layers
    /\ info.protocol = "TCP"

\* ---- C13 ----
\* C13: the details of the line built come in the order DNS, HTTP, TCP, IP,
\* one per category at most, a category being there exactly when the frame
\* gave it a detail; a frame with no recognised layer gives the tag "OTHER"
\* and no detail.
DetailRank(d) ==
    CASE d \in {"DNS Query", "DNS Response"} -> 1
      [] d \in {"HTTP Request", "HTTP Response"} -> 2
      [] d = "TCP" -> 3
      [] d = "IP" -> 4
      [] OTHER -> 0

DetailRanks(ds) == {DetailRank(ds[i]) : i \in DOMAIN ds}

C13_DetailOrder ==
    (pc = "print" /\ pkt # <<>>) =>
        LET ls == pkt[1].layers
            ds == info.details
        IN  /\ \A i \in DOMAIN ds : \A j \in DOMAIN ds :
                  i < j => 0 < DetailRank(ds[i]) /\ DetailRank(ds[i]) < DetailRank(ds[j])
            /\ 0 \notin DetailRanks(ds)
            /\ (1 \in DetailRanks(ds) <=>
                  "DNS" \in ls /\ ("DNSQR" \in ls \/ ("DNSRR" \in ls /\ pkt[1].an_rr)))
            /\ (2 \in DetailRanks(ds) <=>
                  {"HTTPRequest", "HTTPResponse"} \cap ls # {})
            /\ (3 \in DetailRanks(ds) <=> "TCP" \in ls)
            /\ (4 \in DetailRanks(ds) <=> "IP" \in ls)
            /\ (ls = {} => info.protocol = "OTHER" /\ ds = <<>>)

C13_Witness ==
    /\ pc = "print" /\ pkt # <<>>
    /\ info.details = <<"DNS Response", "HTTP Response", "TCP", "IP">>

\* ---- C15 ----
\* C15: for a frame with a DNS layer whose handling returns, the line has
\* at most one DNS detail: the query detail when a question record is
\* present, also when an answer is present too; the response detail exactly
\* when there is no question record and dns.an is a resource record; none
\* otherwise.
DnsDetails(ds) == {i \in DOMAIN ds : ds[i] \in {"DNS Query", "DNS Response"}}

C16_BannerOnceFirst ==
    IF pc = "start"
    THEN Lines("header") = {} /\ Lines("rule") = {} /\ Lines("frame") = {}
    ELSE /\ Cardinality(Lines("header")) = 1
         /\ Cardinality(Lines("rule")) = 1
         /\ \A h \in Lines("header") : \A r \in Lines("rule") : h < r
         /\ \A r \in Lines("rule") :
               \A i \in Lines("frame") \cup Lines("error") \cup Lines("summary") :
                   r < i

C16_Witness ==
    /\ pc = "exited" /\ cause = "source" /\ sniffed = 0
    /\ Cardinality(Lines("header")) = 1 /\ Lines("frame") = {}

\* ---- C18 ----
\* C18: the frame lines printed number at most packet_count and at least
\* packet_count - 1; they number exactly packet_count at every frame
\* boundary; and when packet_handler raised, the frame that raised is
\* counted and has no line.
C18_LinesVersusCount ==
    LET printed == Cardinality(Lines("frame"))
    IN  /\ printed <= packet_count
        /\ packet_count <= printed + 1
        /\ (pc \in FrameBoundary => printed = packet_count)
        /\ (pc \in {"handler"} => printed = packet_count)
        /\ (pc \in {"format", "print"} => packet_count = printed + 1)
        /\ (cause = "handler" => packet_count = printed + 1)

C18_Witness ==
    /\ pc = "exited" /\ cause = "handler"
    /\ packet_count = 2 /\ Cardinality(Lines("frame")) = 1

\* ---- C14 ----
\* C14: the line built for a frame is a function of the frame alone: it is
\* the line packet_handler builds for that frame at any reading of the
\* clock.
C14_LineIgnoresClock ==
    (pc = "print" /\ pkt # <<>>) =>
        \A now \in 0..MaxClock :
            packet_line(pkt[1], now) = <<timestamp, info>>

\* ---- C17 ----
\* C17: at most one frame is dispatched to packet_handler after running was
\* cleared, so packet_count, and the count main reports, is at most the
\* count at the moment the flag was cleared plus one.
C17_BoundedOvershoot ==
    /\ after_stop <= 1
    /\ (count_at_flag >= 0 => packet_count <= count_at_flag + 1)
    /\ (count_at_flag >= 0 /\ reported >= 0 => reported <= count_at_flag + 1)

C17_Witness ==
    /\ pc = "exited" /\ after_stop = 1 /\ count_at_flag = 1
    /\ reported = 2 /\ stop_at = 1

====
